---- MODULE Spec2Model ----
(***************************************************************************)
(* A model of soda's OperationBuilder (src/operation.go): the builder      *)
(* calls that assemble an operation and register it with the OpenAPI       *)
(* document and the fiber router, and the bindInput handler that binds and *)
(* validates a request before the user's handlers run.                     *)
(*                                                                         *)
(* Spec       explores the registration calls (every builder method).      *)
(* SpecServe  explores SetInput, OK and the serving of requests through    *)
(*            the registered handler chains.  The builder methods it       *)
(*            leaves out write only documentation fields that bindInput    *)
(*            never reads.                                                 *)
(***************************************************************************)
EXTENDS Integers, Sequences, FiniteSets, TLC

\* ------------------------------------------------------------------ bounds
\* Builder calls explored in one behaviour.
MaxCalls == 3
\* Pointer levels wrapped around the value handed to SetInput.
MaxPtr == 1
\* Requests served one after the other on one connection in one behaviour.
MaxRequests == 1

\* --------------------------------------------------------------- constants
\* const.go: the one key of request-scoped storage bindInput writes.
KeyInput == "soda::input"

Builders == {"b1", "b2"}
Methods == {"GET"}
Paths == {"/a", "/u/:id"}
\* The connections requests arrive on.
Reqs == {"r1", "r2"}
\* The handlers each builder was created with (the router's Get, Post, ...).
InitialHandlers == [b1 |-> <<"h1", "h2">>, b2 |-> << >>]

NoBuilder == "none"

\* ------------------------------------------------------------ input types
\* A reflect.Type: its kind, its name, its fields (name, type, body tag) and
\* whether its pointer type has a Validate() or a Validate(ctx) method.  Both
\* hooks are named Validate, so no Go type has both.
Field(n, t, body) == [name |-> n, type |-> t, body |-> body]

PageInput ==
    [kind |-> "struct", name |-> "PageInput",
     fields |-> <<Field("Page", "int", "")>>,
     validate |-> FALSE, validateCtx |-> FALSE]

UserInput ==
    [kind |-> "struct", name |-> "UserInput",
     fields |-> <<Field("Name", "string", ""), Field("Body", "CreateUser", "json")>>,
     validate |-> TRUE, validateCtx |-> FALSE]

DualInput ==
    [kind |-> "struct", name |-> "DualInput",
     fields |-> <<Field("A", "DocA", "json"), Field("B", "DocB", "xml")>>,
     validate |-> FALSE, validateCtx |-> TRUE]

IntType ==
    [kind |-> "int", name |-> "int", fields |-> << >>,
     validate |-> FALSE, validateCtx |-> FALSE]

\* reflect.TypeOf(nil): the nil Type; also the zero value of op.input.
NilType ==
    [kind |-> "nil", name |-> "", fields |-> << >>,
     validate |-> FALSE, validateCtx |-> FALSE]

StructTypes == {PageInput, UserInput, DualInput}

\* The values a caller can hand to SetInput: nil, or a struct or an int behind
\* 0..MaxPtr pointers.
InputValues ==
    {[ptr |-> 0, base |-> NilType]} \cup
    [ptr : 0..MaxPtr, base : StructTypes \cup {IntType}]

\* ------------------------------------------------------------------- state
VARIABLES
    builder,              \* each OperationBuilder's own fields
    operation,            \* each builder's *openapi3.Operation (op.operation)
    specOperations,       \* generator.spec paths: (path, method) -> operation pointer
    specTags,             \* generator.spec.Tags
    specSecuritySchemes,  \* generator.spec.Components.SecuritySchemes
    router,               \* routes handed to Fiber.Add, in order
    proc,                 \* the process: running, or how it ended
    calls,                \* builder calls made so far
    okLog,                \* history: the steps every OK() call has taken
    validator,            \* whether soda.validator is configured (not nil)
    reqs,                 \* the requests being served, by connection
    served,               \* requests started so far, by connection
    heap                  \* the values bindInput allocated, by address

vars == <<builder, operation, specOperations, specTags, specSecuritySchemes,
          router, proc, calls, okLog, validator, reqs, served, heap>>

regVars == <<builder, operation, specOperations, specTags, specSecuritySchemes,
             router, okLog>>

\* ------------------------------------------------------- document helpers
TagNames == {"t1", "t2"}
TagLists == {<<"t1">>, <<"t2", "t2">>, <<"t1", "t2">>}
SchemeNames == {"jwt", "key"}
Schemes == {"bearer", "apiKey"}
NoScheme == "none"
Statuses == {200, 404}
Models == {"nil", "Item"}

\* fixPath (not in src/): fiber's ":name" path parameters in OpenAPI's "{name}".
fixPath(p) == IF p = "/u/:id" THEN "/u/{id}" ELSE p

DocKeys == {<<fixPath(p), m>> : p \in Paths, m \in Methods}

NoRequestBody == [operationID |-> "", mediaType |-> "", type |-> ""]

\* GenerateParameters (not in src/): one descriptor per field that carries no
\* body marker, in declaration order.
RECURSIVE ParamsOf(_)
ParamsOf(fs) ==
    IF fs = << >> THEN << >>
    ELSE (IF Head(fs).body = "" THEN <<Head(fs).name>> ELSE << >>) \o ParamsOf(Tail(fs))

GenerateParameters(t) == ParamsOf(t.fields)

\* GenerateRequestBody (not in src/): the body schema under a media type.
GenerateRequestBody(id, mediaType, t) ==
    [operationID |-> id, mediaType |-> mediaType, type |-> t]

\* http.StatusText
StatusText(status) == IF status = 200 THEN "OK" ELSE "Not Found"

\* The key openapi3's Operation.AddResponse files a status under.
ResponseKey(status) == IF status = 0 THEN "default" ELSE ToString(status)

NilResponses == [isNil |-> TRUE, entries |-> {}]

\* responses[key] = value on a map kept as a set of entries.
PutResponse(rs, key, desc, model) ==
    [isNil |-> FALSE,
     entries |-> {e \in rs.entries : e.key # key}
                   \cup {[key |-> key, desc |-> desc, model |-> model]}]

NewOperation ==
    [OperationID |-> "", Summary |-> "", Description |-> "", Deprecated |-> FALSE,
     Tags |-> << >>, Parameters |-> << >>, RequestBody |-> NoRequestBody,
     Security |-> << >>, Responses |-> NilResponses]

NewBuilder(path, method, hs) ==
    [input |-> NilType, inputBody |-> "", inputBodyMediaType |-> "",
     inputBodyField |-> "", path |-> path, method |-> method, handlers |-> hs]

UserHandler(h) == [kind |-> "user", of |-> h]
BindHandler(b) == [kind |-> "bind", of |-> b]

RECURSIVE UserHandlers(_)
UserHandlers(hs) ==
    IF hs = << >> THEN << >> ELSE <<UserHandler(Head(hs))>> \o UserHandlers(Tail(hs))

NoError == [status |-> "pending", from |-> "", client |-> FALSE]

\* A request: where it is in its route's handler chain (pos) and in the current
\* bindInput call (stage), the input instance that call allocated and its type, what request
\* storage holds under KeyInput, the events of the current bindInput call (run)
\* and of the whole request (trace), how many builder calls preceded it (epoch),
\* and what the chain returned.
IdleRequest ==
    [state |-> "idle", route |-> 0, pos |-> 0, stage |-> 0, instance |-> 0,
     body |-> 0, seen |-> << >>,
     type |-> NilType, epoch |-> 0, locals |-> 0, passed |-> FALSE, run |-> << >>, trace |-> << >>,
     result |-> NoError]

Init ==
    /\ \E p \in Paths :
           builder = [b \in Builders |->
                         NewBuilder(IF b = "b1" THEN "/a" ELSE p, "GET",
                                    UserHandlers(InitialHandlers[b]))]
    /\ operation = [b \in Builders |-> NewOperation]
    /\ specOperations = [k \in DocKeys |-> NoBuilder]
    /\ specTags = << >>
    /\ specSecuritySchemes = [n \in SchemeNames |-> NoScheme]
    /\ router = << >>
    /\ proc = "running"
    /\ calls = 0
    /\ okLog = << >>
    /\ validator \in BOOLEAN
    /\ reqs = [r \in Reqs |-> IdleRequest]
    /\ served = [r \in Reqs |-> 0]
    /\ heap = << >>

\* A builder call is made by the running process, between requests.
CanCall ==
    /\ proc = "running" /\ calls < MaxCalls
    /\ \A r \in Reqs : reqs[r].state \in {"idle", "done"}

\* ----------------------------------------------------------- builder calls
SetOperationID(b, id) ==
    /\ CanCall
    /\ operation' = [operation EXCEPT ![b].OperationID = id]
    /\ calls' = calls + 1
    /\ UNCHANGED <<builder, specOperations, specTags, specSecuritySchemes, router,
                   proc, okLog, validator, reqs, served, heap>>

SetSummary(b, summary) ==
    /\ CanCall
    /\ operation' = [operation EXCEPT ![b].Summary = summary]
    /\ calls' = calls + 1
    /\ UNCHANGED <<builder, specOperations, specTags, specSecuritySchemes, router,
                   proc, okLog, validator, reqs, served, heap>>

SetDescription(b, desc) ==
    /\ CanCall
    /\ operation' = [operation EXCEPT ![b].Description = desc]
    /\ calls' = calls + 1
    /\ UNCHANGED <<builder, specOperations, specTags, specSecuritySchemes, router,
                   proc, okLog, validator, reqs, served, heap>>

SetDeprecated(b, deprecated) ==
    /\ CanCall
    /\ operation' = [operation EXCEPT ![b].Deprecated = deprecated]
    /\ calls' = calls + 1
    /\ UNCHANGED <<builder, specOperations, specTags, specSecuritySchemes, router,
                   proc, okLog, validator, reqs, served, heap>>

\* spec.Tags.Get(tag) # nil
HasTag(ts, tag) == \E i \in 1..Len(ts) : ts[i] = tag

\* AddTagsLoop with every argument looked up in the tag list as it was before
\* the call.
AddTagsLoop_LookupBeforeCall(ts, tags) ==
    ts \o SelectSeq(tags, LAMBDA tag : ~HasTag(ts, tag))

\* The loop of AddTags over its arguments, on the document's tag list.
RECURSIVE AddTagsLoop(_, _)
AddTagsLoop(ts, tags) ==
    IF tags = << >> THEN ts
    ELSE AddTagsLoop(IF HasTag(ts, Head(tags)) THEN ts ELSE Append(ts, Head(tags)),
                     Tail(tags))

AddTags(b, tags) ==
    /\ CanCall
    /\ operation' = [operation EXCEPT ![b].Tags = @ \o tags]
    /\ specTags' = AddTagsLoop(specTags, tags)
    /\ calls' = calls + 1
    /\ UNCHANGED <<builder, specOperations, specSecuritySchemes, router, proc,
                   okLog, validator, reqs, served, heap>>

\* reflect.TypeOf(input) followed by the loop that strips every pointer level.
RECURSIVE Indirect(_)
Indirect(v) == IF v.ptr > 0 THEN Indirect([v EXCEPT !.ptr = @ - 1]) ELSE v.base

\* The index of the first field with a non-empty body tag, 0 when there is none:
\* the loop of SetInput stops at its first match.
RECURSIVE FirstBodyFrom(_, _)
FirstBodyFrom(fs, i) ==
    IF i > Len(fs) THEN 0
    ELSE IF fs[i].body # "" THEN i
    ELSE FirstBodyFrom(fs, i + 1)

FirstBody(fs) == FirstBodyFrom(fs, 1)

\* The builder after lines 79-87: the input type, and the body designation when
\* a field carries a body tag (left as it was when none does).
DesignateBody(bld, t) ==
    LET i == FirstBody(t.fields) IN
    IF i = 0 THEN [bld EXCEPT !.input = t]
    ELSE [bld EXCEPT !.input = t,
                     !.inputBody = t.fields[i].type,
                     !.inputBodyMediaType = t.fields[i].body,
                     !.inputBodyField = t.fields[i].name]

\* The operation after lines 88-91.
DescribeInput(op, bld, t) ==
    LET op1 == [op EXCEPT !.Parameters = GenerateParameters(t)] IN
    IF bld.inputBodyField # ""
    THEN [op1 EXCEPT !.RequestBody =
              GenerateRequestBody(op.OperationID, bld.inputBodyMediaType, bld.inputBody)]
    ELSE op1

\* SetInput with line 79 ahead of the check of lines 75-77.
SetInput_AssignFirst(b, v) ==
    /\ CanCall
    /\ calls' = calls + 1
    /\ LET t == Indirect(v) IN
       IF t.kind # "struct"
       THEN /\ proc' = "panic_SetInput"
            /\ builder' = [builder EXCEPT ![b].input = t]
            /\ UNCHANGED operation
       ELSE /\ builder' = [builder EXCEPT ![b] = DesignateBody(@, t)]
            /\ operation' = [operation EXCEPT ![b] =
                                DescribeInput(@, DesignateBody(builder[b], t), t)]
            /\ UNCHANGED proc
    /\ UNCHANGED <<specOperations, specTags, specSecuritySchemes, router, okLog,
                   validator, reqs, served, heap>>

SetInput(b, v) ==
    /\ CanCall
    /\ calls' = calls + 1
    /\ LET t == Indirect(v) IN
       IF t.kind # "struct"
       THEN /\ proc' = "panic_SetInput"
            /\ UNCHANGED <<builder, operation>>
       ELSE /\ builder' = [builder EXCEPT ![b] = DesignateBody(@, t)]
            /\ operation' = [operation EXCEPT ![b] =
                                DescribeInput(@, DesignateBody(builder[b], t), t)]
            /\ UNCHANGED proc
    /\ UNCHANGED <<specOperations, specTags, specSecuritySchemes, router, okLog,
                   validator, reqs, served, heap>>

\* AddSecurity with the scheme stored under its name at every call.
AddSecurity_LastWins(b, name, scheme) ==
    /\ CanCall
    /\ specSecuritySchemes' = [specSecuritySchemes EXCEPT ![name] = scheme]
    /\ operation' = [operation EXCEPT ![b].Security = Append(@, name)]
    /\ calls' = calls + 1
    /\ UNCHANGED <<builder, specOperations, specTags, router, proc, okLog, validator, reqs, served, heap>>

AddSecurity(b, name, scheme) ==
    /\ CanCall
    /\ specSecuritySchemes' =
           IF specSecuritySchemes[name] = NoScheme
           THEN [specSecuritySchemes EXCEPT ![name] = scheme]
           ELSE specSecuritySchemes
    /\ operation' = [operation EXCEPT ![b].Security = Append(@, name)]
    /\ calls' = calls + 1
    /\ UNCHANGED <<builder, specOperations, specTags, router, proc, okLog, validator, reqs, served, heap>>

\* GenerateResponse (not in src/): a JSON response for a model type.
GenerateResponse(id, status, model) == [desc |-> StatusText(status), model |-> model]

AddJSONResponse(b, status, model) ==
    /\ CanCall
    /\ LET rs == IF operation[b].Responses.entries = {}
                 THEN [isNil |-> FALSE, entries |-> {}]
                 ELSE operation[b].Responses
           ref == GenerateResponse(operation[b].OperationID, status, model)
       IN operation' = [operation EXCEPT ![b].Responses =
              IF model = "nil"
              THEN PutResponse(rs, ResponseKey(status), StatusText(status), "nil")
              ELSE PutResponse(rs, ToString(status), ref.desc, ref.model)]
    /\ calls' = calls + 1
    /\ UNCHANGED <<builder, specOperations, specTags, specSecuritySchemes, router,
                   proc, okLog, validator, reqs, served, heap>>

\* Line 146: the binding handler goes in front of the builder's handlers.
WithBindInput(b, hs) == <<BindHandler(b)>> \o hs

\* WithDefaultResponse with the default response added at every OK().
WithDefaultResponse_Always(op) ==
    [op EXCEPT !.Responses = PutResponse(@, ResponseKey(0), "OK", "nil")]

\* Lines 128-130: the default response, when no response map exists.
WithDefaultResponse(op) ==
    IF op.Responses.isNil
    THEN [op EXCEPT !.Responses = PutResponse(@, ResponseKey(0), "OK", "nil")]
    ELSE op

Step(b, step, ok) == [of |-> b, step |-> step, ok |-> ok]

Route(b, hs) == [method |-> builder[b].method, path |-> builder[b].path, handlers |-> hs]

\* OK with the route handed to the router before the document is validated.
OK_RouteBeforeSpecCheck(b, opValid, specValid) ==
    /\ CanCall
    /\ calls' = calls + 1
    /\ operation' = [operation EXCEPT ![b] = WithDefaultResponse(@)]
    /\ IF ~opValid
       THEN /\ proc' = "fatal_operation"
            /\ okLog' = okLog \o <<Step(b, "validateOperation", FALSE)>>
            /\ UNCHANGED <<builder, specOperations, router>>
       ELSE /\ specOperations' =
                  [specOperations EXCEPT ![<<fixPath(builder[b].path), builder[b].method>>] = b]
            /\ builder' = [builder EXCEPT ![b].handlers = WithBindInput(b, @)]
            /\ router' = Append(router, Route(b, WithBindInput(b, builder[b].handlers)))
            /\ okLog' = okLog \o <<Step(b, "validateOperation", TRUE),
                                    Step(b, "addOperation", TRUE),
                                    Step(b, "addRoute", TRUE),
                                    Step(b, "validateSpec", specValid)>>
            /\ proc' = IF specValid THEN proc ELSE "fatal_spec"
    /\ UNCHANGED <<specTags, specSecuritySchemes, validator, reqs, served, heap>>

\* OK with the operation added to the document under the router's path as it is.
OK_RawPath(b, opValid, specValid) ==
    /\ CanCall
    /\ calls' = calls + 1
    /\ operation' = [operation EXCEPT ![b] = WithDefaultResponse(@)]
    /\ IF ~opValid
       THEN /\ proc' = "fatal_operation"
            /\ okLog' = okLog \o <<Step(b, "validateOperation", FALSE)>>
            /\ UNCHANGED <<builder, specOperations, router>>
       ELSE /\ specOperations' =
                  [k \in DocKeys |->
                      IF k = <<builder[b].path, builder[b].method>> THEN b
                      ELSE specOperations[k]]
            /\ IF ~specValid
               THEN /\ proc' = "fatal_spec"
                    /\ okLog' = okLog \o <<Step(b, "validateOperation", TRUE),
                                            Step(b, "addOperation", TRUE),
                                            Step(b, "validateSpec", FALSE)>>
                    /\ UNCHANGED <<builder, router>>
               ELSE /\ builder' = [builder EXCEPT ![b].handlers = WithBindInput(b, @)]
                    /\ router' = Append(router, Route(b, WithBindInput(b, builder[b].handlers)))
                    /\ okLog' = okLog \o <<Step(b, "validateOperation", TRUE),
                                            Step(b, "addOperation", TRUE),
                                            Step(b, "validateSpec", TRUE),
                                            Step(b, "addRoute", TRUE)>>
                    /\ UNCHANGED proc
    /\ UNCHANGED <<specTags, specSecuritySchemes, validator, reqs, served, heap>>

\* opValid and specValid are the verdicts of openapi3's Operation.Validate and
\* T.Validate; log.Fatalln ends the process.
OK(b, opValid, specValid) ==
    /\ CanCall
    /\ calls' = calls + 1
    /\ operation' = [operation EXCEPT ![b] = WithDefaultResponse(@)]
    /\ IF ~opValid
       THEN /\ proc' = "fatal_operation"
            /\ okLog' = okLog \o <<Step(b, "validateOperation", FALSE)>>
            /\ UNCHANGED <<builder, specOperations, router>>
       ELSE /\ specOperations' =
                  [specOperations EXCEPT ![<<fixPath(builder[b].path), builder[b].method>>] = b]
            /\ IF ~specValid
               THEN /\ proc' = "fatal_spec"
                    /\ okLog' = okLog \o <<Step(b, "validateOperation", TRUE),
                                            Step(b, "addOperation", TRUE),
                                            Step(b, "validateSpec", FALSE)>>
                    /\ UNCHANGED <<builder, router>>
               ELSE /\ builder' = [builder EXCEPT ![b].handlers = WithBindInput(b, @)]
                    /\ router' = Append(router, Route(b, WithBindInput(b, builder[b].handlers)))
                    /\ okLog' = okLog \o <<Step(b, "validateOperation", TRUE),
                                            Step(b, "addOperation", TRUE),
                                            Step(b, "validateSpec", TRUE),
                                            Step(b, "addRoute", TRUE)>>
                    /\ UNCHANGED proc
    /\ UNCHANGED <<specTags, specSecuritySchemes, validator, reqs, served, heap>>

\* ----------------------------------------------------------------- serving
\* parameterParsers (not in src/): one parser per parameter location, run in
\* this order.
parameterParsers == <<"path", "query", "header", "cookie">>

\* Stages with the validator handed the instance before the body is decoded.
Stages_ValidatorBeforeBody ==
    parameterParsers \o <<"validator", "body", "validate", "validateCtx">>

\* The stages of bindInput that can return an error, in the order of its code.
Stages == parameterParsers \o <<"body", "validator", "validate", "validateCtx">>

\* Runs with the assertion for the context-aware hook never succeeding.
Runs_CtxHookLost(b, stage) ==
    CASE stage = "body" -> builder[b].inputBodyField # ""
      [] stage = "validator" -> validator
      [] stage = "validate" -> builder[b].input.validate
      [] stage = "validateCtx" -> FALSE
      [] OTHER -> TRUE

\* Whether bindInput runs a stage for builder b: the parsers always, the body
\* decode when a body field is recorded, the validator when one is configured,
\* each hook when the input's type has it.
Runs(b, stage) ==
    CASE stage = "body" -> builder[b].inputBodyField # ""
      [] stage = "validator" -> validator
      [] stage = "validate" -> builder[b].input.validate
      [] stage = "validateCtx" -> builder[b].input.validateCtx
      [] OTHER -> TRUE

\* The first stage from index k on that bindInput runs; Len(Stages) + 1 when
\* only the publication is left.
RECURSIVE NextStage(_, _)
NextStage(b, k) ==
    IF k > Len(Stages) THEN k
    ELSE IF Runs(b, Stages[k]) THEN k
    ELSE NextStage(b, k + 1)

\* reflect.ValueOf(input).Elem().FieldByName(name).Set(body): panics unless the
\* input type has a field of that name and of the body's type.
CanSetBody(b) ==
    \E i \in 1..Len(builder[b].input.fields) :
        /\ builder[b].input.fields[i].name = builder[b].inputBodyField
        /\ builder[b].input.fields[i].type = builder[b].inputBody

Chain(r) == router[reqs[r].route].handlers
Current(r) == Chain(r)[reqs[r].pos]

Serving(r) == proc = "running" /\ reqs[r].state \notin {"idle", "done"}

\* c.Next(): the next handler of the route's chain runs; past the last one the
\* router takes the request back.
Advance(q) ==
    IF q.pos < Len(router[q.route].handlers)
    THEN [q EXCEPT !.pos = @ + 1, !.state = "handler"]
    ELSE [q EXCEPT !.pos = @ + 1, !.state = "done", !.result.status = "passed_on"]

Log(q, e) == [q EXCEPT !.run = Append(@, e), !.trace = Append(@, e)]

\* What a field holds: the zero value, or what a stage made of a request's data.
Zero == [by |-> "zero", of |-> "none"]
Value(stage, r) == [by |-> stage, of |-> r]

\* The parameter location of the fields of the input types, as their tags
\* give it.
Location == [Page |-> "query", Name |-> "header"]

FieldNames(t) == {t.fields[i].name : i \in 1..Len(t.fields)}

\* Whether the parser of a location assigns field n of type t.
Parses(parser, t, n) ==
    \E i \in 1..Len(t.fields) :
        /\ t.fields[i].name = n
        /\ t.fields[i].body = ""
        /\ Location[n] = parser

\* reflect.New(t).Interface(): a zero value at an address no one holds yet.
New(h, typeName, names, r) ==
    Append(h, [type |-> typeName, owner |-> r, fields |-> [n \in names |-> Zero]])

\* The address reflect.New returns.
NewAddress(h) == Len(h) + 1

\* Lines 172-177: the body value is allocated and decoded, and its value is
\* copied into the body field of the instance when set says the field exists.
BindBody(h, q, b, r, set) ==
    LET at == NewAddress(h)
        hb == [New(h, builder[b].inputBody, {"value"}, r) EXCEPT
                  ![at].fields.value = Value("body", r)]
    IN IF set
       THEN [hb EXCEPT ![q.instance].fields[builder[b].inputBodyField] = hb[at].fields.value]
       ELSE hb

\* What a stage that returns nil leaves in the heap: a parser assigns the
\* fields of its location, the body stage the body field, the others nothing.
Bind(h, q, b, st, r) ==
    IF st = "body" THEN BindBody(h, q, b, r, TRUE)
    ELSE IF \E i \in 1..Len(parameterParsers) : parameterParsers[i] = st
    THEN [h EXCEPT ![q.instance].fields =
              [n \in DOMAIN @ |-> IF Parses(st, q.type, n) THEN Value(st, r) ELSE @[n]]]
    ELSE h

\* The router hands a request to a registered route.
Arrive(r, i) ==
    /\ proc = "running"
    /\ reqs[r].state \in {"idle", "done"}
    /\ i \in 1..Len(router)
    /\ reqs' = [reqs EXCEPT ![r] = [IdleRequest EXCEPT !.state = "handler", !.route = i,
                                                      !.pos = 1, !.epoch = calls]]
    /\ served' = [served EXCEPT ![r] = @ + 1]
    /\ UNCHANGED <<regVars, proc, calls, validator, heap>>

\* BindEnter with the instance stored under KeyInput as soon as it is allocated.
BindEnter_StoreFirst(r) ==
    /\ Serving(r) /\ reqs[r].state = "handler" /\ Current(r).kind = "bind"
    /\ LET b == Current(r).of
           q == [reqs[r] EXCEPT !.run = <<"enter">>, !.trace = Append(@, "enter")]
       IN IF builder[b].input = NilType
          THEN /\ reqs' = [reqs EXCEPT ![r] = Advance(Log(q, "next"))]
               /\ UNCHANGED heap
          ELSE /\ heap' = New(heap, builder[b].input.name, FieldNames(builder[b].input), r)
               /\ reqs' = [reqs EXCEPT ![r] =
                              [Log(q, "store") EXCEPT
                                  !.state = "stages", !.stage = NextStage(b, 1),
                                  !.instance = NewAddress(heap), !.type = builder[b].input,
                                  !.locals = NewAddress(heap)]]
    /\ UNCHANGED <<regVars, proc, calls, validator, served>>

\* BindEnter with a nil input stored under KeyInput when there is no input type.
BindEnter_StoresNil(r) ==
    /\ Serving(r) /\ reqs[r].state = "handler" /\ Current(r).kind = "bind"
    /\ LET b == Current(r).of
           q == [reqs[r] EXCEPT !.run = <<"enter">>, !.trace = Append(@, "enter")]
       IN IF builder[b].input = NilType
          THEN /\ reqs' = [reqs EXCEPT ![r] = Advance(Log(Log(q, "store"), "next"))]
               /\ UNCHANGED heap
          ELSE /\ heap' = New(heap, builder[b].input.name, FieldNames(builder[b].input), r)
               /\ reqs' = [reqs EXCEPT ![r] =
                              [q EXCEPT !.state = "stages", !.stage = NextStage(b, 1),
                                        !.instance = NewAddress(heap),
                                        !.type = builder[b].input]]
    /\ UNCHANGED <<regVars, proc, calls, validator, served>>

\* BindEnter with the instance allocated once for the handler, outside the
\* function that serves a request: every request of the route is given it.
BindEnter_SharedInstance(r) ==
    /\ Serving(r) /\ reqs[r].state = "handler" /\ Current(r).kind = "bind"
    /\ LET b == Current(r).of
           q == [reqs[r] EXCEPT !.run = <<"enter">>, !.trace = Append(@, "enter")]
           made == {at \in 1..Len(heap) : heap[at].type = builder[b].input.name}
           mine == IF made = {} THEN NewAddress(heap) ELSE CHOOSE at \in made : TRUE
       IN IF builder[b].input = NilType
          THEN /\ reqs' = [reqs EXCEPT ![r] = Advance(Log(q, "next"))]
               /\ UNCHANGED heap
          ELSE /\ heap' = IF made = {}
                          THEN New(heap, builder[b].input.name, FieldNames(builder[b].input), r)
                          ELSE heap
               /\ reqs' = [reqs EXCEPT ![r] =
                              [q EXCEPT !.state = "stages", !.stage = NextStage(b, 1),
                                        !.instance = mine, !.type = builder[b].input]]
    /\ UNCHANGED <<regVars, proc, calls, validator, served>>

\* Lines 157-162: with no input type the handler only calls c.Next(); otherwise
\* it allocates the instance and the stages start.
BindEnter(r) ==
    /\ Serving(r) /\ reqs[r].state = "handler" /\ Current(r).kind = "bind"
    /\ LET b == Current(r).of
           q == [reqs[r] EXCEPT !.run = <<"enter">>, !.trace = Append(@, "enter")]
       IN IF builder[b].input = NilType
          THEN /\ reqs' = [reqs EXCEPT ![r] = Advance(Log(q, "next"))]
               /\ UNCHANGED heap
          ELSE /\ heap' = New(heap, builder[b].input.name, FieldNames(builder[b].input), r)
               /\ reqs' = [reqs EXCEPT ![r] =
                              [q EXCEPT !.state = "stages", !.stage = NextStage(b, 1),
                                        !.instance = NewAddress(heap),
                                        !.type = builder[b].input]]
    /\ UNCHANGED <<regVars, proc, calls, validator, served>>

\* One stage of lines 164-198 returns nil: the next stage that applies is up.
\* After the body decode the decoded value is assigned to the body field; the
\* validator is handed the instance as it is then.
StagePass(r) ==
    /\ Serving(r) /\ reqs[r].state = "stages" /\ reqs[r].stage <= Len(Stages)
    /\ LET q == reqs[r]
           b == Current(r).of
           st == Stages[q.stage]
       IN IF st = "body" /\ ~CanSetBody(b)
          THEN /\ proc' = "panic_bindInput"
               /\ heap' = BindBody(heap, q, b, r, FALSE)
               /\ reqs' = [reqs EXCEPT ![r] =
                              [Log(q, st) EXCEPT !.state = "done", !.body = NewAddress(heap),
                                                 !.result.status = "panic"]]
          ELSE /\ heap' = Bind(heap, q, b, st, r)
               /\ reqs' = [reqs EXCEPT ![r] =
                              [Log(q, st) EXCEPT
                                  !.stage = NextStage(b, q.stage + 1),
                                  !.body = IF st = "body" THEN NewAddress(heap) ELSE @,
                                  !.seen = IF st = "validator"
                                           THEN heap[q.instance].fields ELSE @]]
               /\ UNCHANGED proc
    /\ UNCHANGED <<regVars, calls, validator, served>>

\* One stage returns an error, which bindInput returns as it is.  client says
\* whether that error is one the router answers with a 4xx status.  A request
\* that passed the stages once passes them again.
StageFail(r, client) ==
    /\ Serving(r) /\ reqs[r].state = "stages" /\ reqs[r].stage <= Len(Stages)
    /\ ~reqs[r].passed
    /\ LET q == reqs[r]
           st == Stages[q.stage]
       IN /\ reqs' = [reqs EXCEPT ![r] =
                         [Log(q, st) EXCEPT
                             !.state = "done",
                             !.body = IF st = "body" THEN NewAddress(heap) ELSE @,
                             !.seen = IF st = "validator" THEN heap[q.instance].fields ELSE @,
                             !.result = [status |-> "error", from |-> st, client |-> client]]]
          /\ heap' = IF st = "body"
                     THEN New(heap, builder[Current(r).of].inputBody, {"value"}, r)
                     ELSE heap
    /\ UNCHANGED <<regVars, proc, calls, validator, served>>

\* Lines 200-202: c.Locals(KeyInput, input), then c.Next().
Publish(r) ==
    /\ Serving(r) /\ reqs[r].state = "stages" /\ reqs[r].stage > Len(Stages)
    /\ reqs' = [reqs EXCEPT ![r] =
                   Advance([Log(Log(reqs[r], "store"), "next") EXCEPT
                               !.locals = reqs[r].instance, !.passed = TRUE])]
    /\ UNCHANGED <<regVars, proc, calls, validator, served, heap>>

\* A handler of the user: it answers, or it calls c.Next().
UserHandle(r, callsNext) ==
    /\ Serving(r) /\ reqs[r].state = "handler" /\ Current(r).kind = "user"
    /\ reqs' = [reqs EXCEPT ![r] =
                   IF callsNext
                   THEN Advance([reqs[r] EXCEPT !.trace = Append(@, Current(r).of)])
                   ELSE [reqs[r] EXCEPT !.trace = Append(@, Current(r).of),
                                        !.state = "done", !.result.status = "nil"]]
    /\ UNCHANGED <<regVars, proc, calls, validator, served, heap>>

\* ---------------------------------------------------------- specifications
Register ==
    \E b \in Builders :
        \/ SetOperationID(b, "getItem")
        \/ SetSummary(b, "s")
        \/ SetDescription(b, "d")
        \/ SetDeprecated(b, TRUE)
        \/ \E tags \in TagLists : AddTags(b, tags)
        \/ \E v \in InputValues : SetInput(b, v)
        \/ \E n \in SchemeNames, s \in Schemes : AddSecurity(b, n, s)
        \/ \E st \in Statuses, m \in Models : AddJSONResponse(b, st, m)
        \/ \E ov \in BOOLEAN, sv \in BOOLEAN : OK(b, ov, sv)

Serve(r) ==
    \/ served[r] < MaxRequests /\ \E i \in 1..MaxCalls : Arrive(r, i)
    \/ BindEnter(r)
    \/ StagePass(r)
    \/ \E client \in BOOLEAN : StageFail(r, client)
    \/ Publish(r)
    \/ \E callsNext \in BOOLEAN : UserHandle(r, callsNext)

Next == Register

\* No builder call reads soda.validator, so registration is explored for one
\* configuration of it.
InitRegister == Init /\ ~validator

Spec == InitRegister /\ [][Next]_vars

\* The calls that decide what a request meets, and the requests.
NextServe ==
    \/ \E b \in Builders :
           \/ \E v \in InputValues : SetInput(b, v)
           \/ \E ov \in BOOLEAN, sv \in BOOLEAN : OK(b, ov, sv)
    \/ Serve("r1")

SpecServe == Init /\ [][NextServe]_vars

\* The request the one-connection specification serves.
req == reqs["r1"]

\* Requests served at the same time, one on each connection: their handlers
\* interleave stage by stage.  The routes are registered before the first
\* request, with struct values, and pass both checks of OK(); the handlers of
\* the user call c.Next().
ServeOne(r) ==
    \/ served[r] = 0 /\ \E i \in 1..MaxCalls : Arrive(r, i)
    \/ BindEnter(r)
    \/ StagePass(r)
    \/ StageFail(r, TRUE)
    \/ Publish(r)
    \/ UserHandle(r, TRUE)

NextConc ==
    \/ /\ \A r \in Reqs : served[r] = 0
       /\ \E b \in Builders :
              \/ \E t \in StructTypes : SetInput(b, [ptr |-> 0, base |-> t])
              \/ OK(b, TRUE, TRUE)
    \/ \E r \in Reqs : ServeOne(r)

\* The two builders hold different paths, so that each registers its own route.
InitConc == InitRegister /\ builder["b2"].path # builder["b1"].path

SpecConc == InitConc /\ [][NextConc]_vars

\* ------------------------------------------------------------------ claims
Occurs(seq, e) == \E i \in 1..Len(seq) : seq[i] = e
Count(seq, e) == Cardinality({i \in 1..Len(seq) : seq[i] = e})
UserEvents == {"h1", "h2"}

RouteBuilder(i) == router[i].handlers[1].of

\* The first place of event e in a sequence that holds it.
Pos(seq, e) == CHOOSE i \in 1..Len(seq) : seq[i] = e /\ \A j \in 1..(i - 1) : seq[j] # e

\* The place of a stage in the order of bindInput's code.
StageIndex(e) == CHOOSE k \in 1..Len(Stages) : Stages[k] = e

StageEvents == {Stages[k] : k \in 1..Len(Stages)}

\* C2: a request on a route with an input type whose stages all succeed has the
\* instance stored under KeyInput exactly once, before c.Next, and bindInput
\* calls c.Next exactly once for it, whatever builder calls registered the route.
C2_PublishedExactlyOnce ==
    req.type # NilType =>
        /\ Count(req.trace, "store") <= 1
        /\ Count(req.trace, "next") <= 1
        /\ req.passed =>
              /\ Count(req.trace, "store") = 1
              /\ Count(req.trace, "next") = 1
              /\ Pos(req.trace, "store") < Pos(req.trace, "next")
              /\ req.locals # 0

\* C3: within one request the stages run in the order of bindInput's code
\* (parsers in list order, body, validator, Validate(), Validate(ctx), then the
\* publication), a stage runs only after every earlier one returned nil, the
\* first error is what the pipeline returns, and no stage runs twice.
C3_StagesInOrderOnce ==
    /\ \A i, j \in 1..Len(req.trace) :
          (i < j /\ req.trace[i] \in StageEvents /\ req.trace[j] \in StageEvents)
              => StageIndex(req.trace[i]) < StageIndex(req.trace[j])
    /\ \A i, j \in 1..Len(req.trace) :
          (req.trace[i] = "store" /\ req.trace[j] \in StageEvents) => j < i
    /\ \A e \in StageEvents : Count(req.trace, e) <= 1
    /\ req.result.status = "error" =>
          /\ req.trace[Len(req.trace)] = req.result.from
          /\ Count(req.trace, req.result.from) = 1

Outcome(r) ==
    CASE r.status = "error" /\ r.client -> "client_error"
      [] r.status = "error" -> "server_fault"
      [] r.status = "panic" -> "crash"
      [] OTHER -> "handled"

\* C5: every binding failure and every validation failure of bindInput ends in
\* a client error for the request, never a server fault, never a crash.
C5_FailuresAreClientErrors ==
    req.result.status \in {"error", "panic"} => Outcome(req.result) = "client_error"

AddRouteSteps == {i \in 1..Len(okLog) : okLog[i].step = "addRoute"}

\* C6: OK() checks the operation, then adds it to the document, then checks the
\* document, then adds the route.  A failed check ends the process with the
\* route not added: the router holds one route per OK() call that passed both
\* checks, and nothing else.
C6_RouteAfterBothChecks ==
    /\ Len(router) = Cardinality(AddRouteSteps)
    /\ \A i \in AddRouteSteps :
          /\ i >= 4
          /\ okLog[i - 3] = Step(okLog[i].of, "validateOperation", TRUE)
          /\ okLog[i - 2] = Step(okLog[i].of, "addOperation", TRUE)
          /\ okLog[i - 1] = Step(okLog[i].of, "validateSpec", TRUE)
          /\ RouteBuilder(Cardinality({j \in AddRouteSteps : j <= i})) = okLog[i].of
    /\ \A i \in 1..Len(okLog) :
          /\ okLog[i].step = "addOperation" =>
                /\ i >= 2 /\ okLog[i - 1] = Step(okLog[i].of, "validateOperation", TRUE)
                /\ specOperations[<<fixPath(builder[okLog[i].of].path),
                                    builder[okLog[i].of].method>>] # NoBuilder
          /\ okLog[i].step = "validateSpec" =>
                i >= 2 /\ okLog[i - 1] = Step(okLog[i].of, "addOperation", TRUE)
          /\ ~okLog[i].ok =>
                /\ i = Len(okLog)
                /\ proc = (IF okLog[i].step = "validateOperation"
                           THEN "fatal_operation" ELSE "fatal_spec")
    /\ proc \in {"fatal_operation", "fatal_spec"} =>
          (okLog # << >> /\ ~okLog[Len(okLog)].ok)

\* The document check has failed for a second OK(): its operation is in the
\* document and the router holds the first route only.
C6_Witness ==
    /\ proc = "fatal_spec"
    /\ Len(router) = 1
    /\ Cardinality({i \in 1..Len(okLog) : okLog[i].step = "addOperation"}) = 2

\* C7: every chain handed to the router starts with bindInput, holds it exactly
\* once, and continues with the user's handlers in their order, after any
\* number of OK() calls on a builder.
C7_BindInputOnceThenHandlers ==
    \A i \in 1..Len(router) :
        LET hs == router[i].handlers IN
        /\ hs[1].kind = "bind"
        /\ Cardinality({k \in 1..Len(hs) : hs[k].kind = "bind"}) = 1
        /\ Tail(hs) = UserHandlers(InitialHandlers[hs[1].of])

BodyMarkers(t) == Cardinality({i \in 1..Len(t.fields) : t.fields[i].body # ""})

\* C8: SetInput never completes for a type with two or more body-marked fields,
\* so no builder records such a type and no request is bound to one.
C8_AmbiguousBodyIsFatal ==
    /\ \A b \in Builders : BodyMarkers(builder[b].input) <= 1
    /\ BodyMarkers(req.type) <= 1

\* C9: a SetInput call whose value, stripped of its pointers, is no struct
\* panics and leaves the builder and its operation as they were; no builder
\* ever records such a type.
C9_NonStructPanicsUntouched ==
    /\ [](\A b \in Builders : builder[b].input.kind \in {"nil", "struct"})
    /\ [][\A b \in Builders, v \in InputValues :
             (Indirect(v).kind # "struct" /\ SetInput(b, v))
                 => /\ proc' = "panic_SetInput"
                    /\ builder' = builder
                    /\ operation' = operation
                    /\ specOperations' = specOperations]_vars

\* SetInput has panicked on a builder that had recorded a body field before.
C9_Witness ==
    /\ proc = "panic_SetInput"
    /\ \E b \in Builders : builder[b].inputBodyField # ""

\* C10: once OK() has put an operation in the document, no later builder call
\* changes the record the document holds for that path and method.
C10_FinalizedRecordFrozen ==
    [][\A k \in DocKeys :
          specOperations[k] # NoBuilder
              => /\ specOperations'[k] # NoBuilder
                 /\ operation'[specOperations'[k]] = operation[specOperations[k]]]_vars

\* Whether the input type declares a body field.
HasBodyField(t) == BodyMarkers(t) > 0

\* A step in which the body stage of request r returns nil.
BodyStagePasses(r) ==
    /\ reqs[r].state = "stages" /\ reqs[r].stage <= Len(Stages)
    /\ Stages[reqs[r].stage] = "body"
    /\ reqs'[r].stage # reqs[r].stage
    /\ reqs'[r].result.status = "pending"

\* C11: on a route whose input type declares a body field, the body stage that
\* decoded the payload leaves the decoded value in the designated body field of
\* the bound instance and every other field as the parameter parsers left it;
\* with an input type that declares no body field the stage decodes nothing.
C11_BodyStageFrame ==
    /\ [](\A r \in Reqs :
              ~HasBodyField(reqs[r].type) =>
                  ~Occurs(reqs[r].trace, "body") /\ reqs[r].body = 0)
    /\ [][\A r \in Reqs :
              BodyStagePasses(r) =>
                  LET at == reqs[r].instance
                      field == builder[Current(r).of].inputBodyField
                  IN /\ heap'[at].fields[field] = Value("body", r)
                     /\ heap'[reqs'[r].body].fields.value = Value("body", r)
                     /\ \A n \in DOMAIN heap[at].fields \ {field} :
                            heap'[at].fields[n] = heap[at].fields[n]]_vars

\* A value bindInput allocated and a request still holds.
Holds(r, at) == at # 0 /\ at \in {reqs[r].instance, reqs[r].body, reqs[r].locals}

\* C12: under any interleaving of requests, every instance and body value a
\* request holds was allocated by that request and is held by no other, every
\* field of it was written from that request's own data, and the instance
\* stored under KeyInput is one the request's own call allocated and bound.
C12_InstancesAreExclusive ==
    \A r \in Reqs :
        /\ \A at \in 1..Len(heap) :
               Holds(r, at) =>
                   /\ heap[at].owner = r
                   /\ \A o \in Reqs \ {r} : ~Holds(o, at)
                   /\ \A n \in DOMAIN heap[at].fields :
                          heap[at].fields[n].of \in {r, Zero.of}
        /\ reqs[r].instance # 0 => reqs[r].instance \in 1..Len(heap)
        /\ reqs[r].locals # 0 =>
               /\ reqs[r].locals \in 1..Len(heap)
               /\ heap[reqs[r].locals].type = reqs[r].type.name

\* Two requests on one route, bound and published, whose allocations
\* interleaved: the second allocated its instance before the first its body.
C12_Witness ==
    /\ reqs["r1"].route = reqs["r2"].route
    /\ reqs["r1"].locals # 0 /\ reqs["r2"].locals # 0
    /\ reqs["r1"].body # 0 /\ reqs["r2"].body # 0
    /\ reqs["r1"].instance < reqs["r2"].instance
    /\ reqs["r2"].instance < reqs["r1"].body
    /\ heap[reqs["r1"].locals].fields.Body = Value("body", "r1")
    /\ heap[reqs["r2"].locals].fields.Name = Value("header", "r2")

\* The instance with every parameter field and the designated body field
\* assigned from the data of request r.
FullyBound(fields, t, r) ==
    /\ DOMAIN fields = FieldNames(t)
    /\ \A i \in 1..Len(t.fields) :
           t.fields[i].body = "" => fields[t.fields[i].name] = Value(Location[t.fields[i].name], r)
    /\ FirstBody(t.fields) # 0 =>
           fields[t.fields[FirstBody(t.fields)].name] = Value("body", r)

\* Whether a call of bindInput got past its binding stages.
BindingDone(q) ==
    \/ q.state = "stages" /\ q.stage > StageIndex("validator")
    \/ Occurs(q.run, "validator") \/ Occurs(q.run, "validate")
    \/ Occurs(q.run, "validateCtx") \/ Occurs(q.run, "store")

\* C13: a call of bindInput hands the instance to the validator exactly when a
\* validator is configured and every parser and the body stage returned nil,
\* and the instance is then fully bound; with no validator configured the stage
\* is skipped and the Validate hook of the input type still runs.
C13_ValidatorSeesBoundInstance ==
    \A r \in Reqs :
        LET q == reqs[r] IN
        /\ BindingDone(q) => (validator <=> Occurs(q.run, "validator"))
        /\ q.result.status = "error" /\ StageIndex(q.result.from) < StageIndex("validator")
               => ~Occurs(q.run, "validator")
        /\ Occurs(q.run, "validator") =>
               /\ validator
               /\ \A k \in 1..Len(parameterParsers) : Occurs(q.run, parameterParsers[k])
               /\ HasBodyField(q.type) => Occurs(q.run, "body")
               /\ FullyBound(q.seen, q.type, r)
        /\ ~validator /\ Occurs(q.run, "store") =>
               /\ q.type.validate => Occurs(q.run, "validate")
               /\ q.type.validateCtx => Occurs(q.run, "validateCtx")

\* A request with parameters and a body that the configured validator was
\* handed, fully bound, and that was published.
C13_Witness ==
    /\ validator
    /\ req.type = UserInput
    /\ Occurs(req.run, "validator") /\ Occurs(req.run, "store")
    /\ req.seen = [Name |-> Value("header", "r1"), Body |-> Value("body", "r1")]

\* The key of the document a route's operation is filed under.
DocKey(route) == <<fixPath(route.path), route.method>>

\* The routes registered for a key of the document.
RoutesOf(k) == {i \in 1..Len(router) : DocKey(router[i]) = k}

\* C14: while no OK() call has ended the process half way, every route of the
\* router has an operation in the document under its fixed path and method,
\* and every operation in the document has a route: the one of the builder
\* whose OK() call filed it last.
C14_DocumentMatchesRouter ==
    proc # "fatal_spec" =>
        /\ \A i \in 1..Len(router) : specOperations[DocKey(router[i])] # NoBuilder
        /\ \A k \in DocKeys :
               specOperations[k] # NoBuilder =>
                   /\ RoutesOf(k) # {}
                   /\ specOperations[k] =
                          RouteBuilder(CHOOSE i \in RoutesOf(k) : \A j \in RoutesOf(k) : j <= i)

\* Both builders have registered a route, one of them under a path with a
\* parameter, and the document holds an operation for each.
C14_Witness ==
    /\ proc = "running"
    /\ Len(router) >= 2
    /\ specOperations[<<"/u/{id}", "GET">>] = "b2"
    /\ specOperations[<<"/a", "GET">>] = "b1"

\* C15: the tag list of the document holds no name twice, holds every name
\* handed to AddTags on any builder, and only grows at its end: no call removes
\* or moves a tag that is in it.
C15_DocumentTagsUniqueAndKept ==
    /\ [](/\ \A i, j \in 1..Len(specTags) : specTags[i] = specTags[j] => i = j
          /\ \A b \in Builders :
                 \A i \in 1..Len(operation[b].Tags) : HasTag(specTags, operation[b].Tags[i]))
    /\ [][/\ Len(specTags') >= Len(specTags)
          /\ SubSeq(specTags', 1, Len(specTags)) = specTags]_vars

\* A name was handed to AddTags three times, twice in one call, and the
\* document holds both names once.
C15_Witness ==
    /\ Len(specTags) = 2
    /\ \E b \in Builders : Count(operation[b].Tags, "t2") >= 3

\* C16: a scheme stored under a name is never replaced, so the first AddSecurity
\* call for a name decides its scheme; every AddSecurity call, whether it stored
\* its scheme or not, appends one requirement for the name to the security list
\* of its own operation and leaves the other operations' lists alone.
C16_FirstSchemeWins ==
    [][/\ \A n \in SchemeNames :
              specSecuritySchemes[n] # NoScheme =>
                  specSecuritySchemes'[n] = specSecuritySchemes[n]
       /\ \A b \in Builders, n \in SchemeNames, s \in Schemes :
              AddSecurity(b, n, s) =>
                  /\ specSecuritySchemes[n] = NoScheme => specSecuritySchemes'[n] = s
                  /\ operation'[b].Security = Append(operation[b].Security, n)
                  /\ \A o \in Builders \ {b} : operation'[o].Security = operation[o].Security
                  /\ \A m \in SchemeNames \ {n} :
                         specSecuritySchemes'[m] = specSecuritySchemes[m]]_vars

\* Three calls for one name, from both builders: one scheme is stored and each
\* call left its requirement.
C16_Witness ==
    /\ specSecuritySchemes["jwt"] = "bearer"
    /\ specSecuritySchemes["key"] = NoScheme
    /\ operation["b1"].Security = <<"jwt", "jwt">>
    /\ operation["b2"].Security = <<"jwt">>

\* C17: on a route whose builder has no input type, a call of bindInput calls
\* c.Next once and does nothing else: the request meets no parser, no body
\* decode, no validator and no hook, no instance or body value is allocated for
\* it, and nothing is stored under KeyInput.
C17_NoInputOnlyNext ==
    \A r \in Reqs :
        LET q == reqs[r] IN
        (q.type = NilType /\ Occurs(q.trace, "enter")) =>
            /\ q.run = <<"enter", "next">>
            /\ Count(q.trace, "next") = Count(q.trace, "enter")
            /\ \A i \in 1..Len(q.trace) : q.trace[i] \notin StageEvents \cup {"store"}
            /\ q.locals = 0 /\ q.instance = 0 /\ q.body = 0
            /\ q.result.status \notin {"error", "panic"}

\* A request on a route without input type went through bindInput and was
\* answered by the first handler of the user.
C17_Witness ==
    /\ req.type = NilType
    /\ req.trace = <<"enter", "next", "h1">>
    /\ req.state = "done" /\ req.result.status = "nil"

\* C18: after any SetInput calls every builder's body designation fits its input
\* type: a body field is recorded exactly when the type has a body-marked field,
\* the recorded name, type and media type are those of the first such field,
\* and the field bindInput assigns the body to exists in the type.
C18_BodyDesignationFitsInput ==
    \A b \in Builders :
        LET bld == builder[b]
            i == FirstBody(bld.input.fields)
        IN /\ bld.inputBodyField # "" <=> i # 0
           /\ i # 0 =>
                  /\ bld.inputBodyField = bld.input.fields[i].name
                  /\ bld.inputBody = bld.input.fields[i].type
                  /\ bld.inputBodyMediaType = bld.input.fields[i].body
           /\ bld.inputBodyField # "" => CanSetBody(b)

\* The responses of an operation, by key.
ResponsesOf(b) == operation[b].Responses.entries

DefaultOK == [key |-> "default", desc |-> "OK", model |-> "nil"]

\* C19: every operation in the document has a response.  OK() adds the default
\* response "OK" exactly when the operation has no response, and otherwise
\* leaves the responses as they are; AddJSONResponse files one response under
\* its status and leaves the responses of every other status as they are.
C19_ResponsesKeptAndDefaulted ==
    /\ [](\A k \in DocKeys :
              specOperations[k] # NoBuilder => ResponsesOf(specOperations[k]) # {})
    /\ [][/\ \A b \in Builders, ov \in BOOLEAN, sv \in BOOLEAN :
                 OK(b, ov, sv) =>
                     ResponsesOf(b)' = IF ResponsesOf(b) = {} THEN {DefaultOK}
                                       ELSE ResponsesOf(b)
          /\ \A b \in Builders, st \in Statuses, m \in Models :
                 AddJSONResponse(b, st, m) =>
                     /\ {e \in ResponsesOf(b)' : e.key # ToString(st)}
                            = {e \in ResponsesOf(b) : e.key # ToString(st)}
                     /\ Cardinality({e \in ResponsesOf(b)' : e.key = ToString(st)}) = 1
                     /\ \A e \in ResponsesOf(b)' :
                            e.key = ToString(st) => e.model = m]_vars

\* An operation with two responses of its own went into the document and has
\* those two and no default response.
C19_Witness ==
    \E k \in DocKeys :
        /\ specOperations[k] # NoBuilder
        /\ {e.key : e \in ResponsesOf(specOperations[k])} = {"200", "404"}

====
